---- MODULE Spec2Model ----
(***************************************************************************)
(* Voiceflow-Stripe API: the subscription query endpoint and the Stripe    *)
(* webhook endpoint of the Express server, with the Supabase table         *)
(* `subscriptions` as the store.  One action per run-to-completion segment *)
(* of a handler: a segment ends at an `await` of a Stripe or Supabase      *)
(* call, where other requests may run.                                     *)
(***************************************************************************)
EXTENDS Integers, Sequences, FiniteSets, TLC

\* ------------------------------------------------------------------ bounds
\* webhook deliveries, query requests, and the seconds the clock runs over
NumHooks == 2
NumQueries == 1
MaxSec == 1

\* new Date(subscription.current_period_end * 1000)
MsPerSec == 1000

Hooks == 1..NumHooks
Queries == 1..NumQueries
Seconds == 0..MaxSec

\* --------------------------------------------------------- input domains
Absent == "<absent>"
\* a current_period_end the event does not carry (undefined * 1000 is NaN)
NaN == 0 - 1
Empty == ""
Customers == {"cus_1", "cus_2"}
Emails == {"a@x", "b@x"}
SubIds == {"sub_1"}
\* subscription.current_period_end of the events, in seconds
PeriodEnds == {1}
PRICE_ID_BASIC == "price_basic"
PRICE_ID_PRO == "price_pro"
PRICE_ID_PREMIUM == "price_premium"
PriceIds == {PRICE_ID_PREMIUM, "price_other"}
EventStatuses == {"active", "past_due"}
SubscriptionUpdateTypes == {"customer.subscription.created", "customer.subscription.updated"}

\* event.data.object of a subscription event and of an invoice event
SubscriptionObjects ==
    [customer : Customers, price : PriceIds, status : EventStatuses,
     id : SubIds, current_period_end : PeriodEnds \cup {NaN}]
InvoiceObjects == [customer : Customers]
\* of a deleted subscription the handler reads the customer alone
DeletedObjects ==
    [customer : Customers, price : {PRICE_ID_PREMIUM}, status : {"canceled"},
     id : SubIds, current_period_end : PeriodEnds]
Events ==
    [type : SubscriptionUpdateTypes, object : SubscriptionObjects]
    \cup [type : {"customer.subscription.deleted"}, object : DeletedObjects]
    \cup [type : {"invoice.payment_succeeded", "invoice.payment_failed"}, object : InvoiceObjects]
    \cup [type : {"charge.refunded"}, object : {[customer |-> "cus_1"]}]
NoObject == [customer |-> Absent]

\* the JSON body of a check-subscription request
Identifiers == {Absent, Empty} \cup Emails
Bodies == [userId : Identifiers, email : Identifiers]

VARIABLES
    store,      \* the rows of table `subscriptions`
    now,        \* the clock, in milliseconds
    hook,       \* per webhook delivery, numbered in order of arrival: its handler's
                \* position and locals
    query,      \* per check-subscription request: its handler's position and locals
    lastWriter  \* the webhook delivery whose write the store applied last ({}: none yet)

vars == <<store, now, hook, query, lastWriter>>

\* ---------------------------------------------------------------- helpers
\* const TIER_MAPPING = {[PRICE_ID_BASIC]: 'basic', ...}
TIER_MAPPING ==
    (PRICE_ID_BASIC :> "basic") @@ (PRICE_ID_PRO :> "pro") @@ (PRICE_ID_PREMIUM :> "premium")

\* TIER_MAPPING[priceId] || 'unknown'
TierOf(priceId) ==
    IF priceId \in DOMAIN TIER_MAPPING THEN TIER_MAPPING[priceId] ELSE "unknown"

\* faulty variant: an empty string passes for an identifier
MissingOnly(x) == x = Absent
\* !x of a request parameter
Falsy(x) == x \in {Absent, Empty}

\* Date#toISOString: an ISO string is its seconds and its millisecond field
ToISOString(ms) == <<ms \div MsPerSec, ms % MsPerSec>>
\* new Date(isoString), as milliseconds
DateOf(iso) == iso[1] * MsPerSec + iso[2]

\* new Date(sec * 1000) of a missing field is an invalid date; toISOString throws on it
ValidDate(sec) == sec # NaN

NoWrite == [op |-> "none"]
NoResponse == [status |-> 0]
NoResult == [kind |-> "none"]

\* faulty variant: a plain insert, which leaves the old row in place
Insert(st, data) == st \cup {data}
\* supabase.from('subscriptions').upsert(data, {onConflict: 'user_id'})
Upsert(st, data) == {r \in st : r.user_id # data.user_id} \cup {data}

\* one row with the fields of `patch` overwritten
Patched(r, patch) == [f \in DOMAIN r |-> IF f \in DOMAIN patch THEN patch[f] ELSE r[f]]

\* supabase.from('subscriptions').update(patch).eq('stripe_customer_id', customer)
UpdateWhereCustomer(st, customer, patch) ==
    {IF r.stripe_customer_id = customer THEN Patched(r, patch) ELSE r : r \in st}

\* faulty variant: a write is dropped once a later delivery has written
ApplyWriteUnlessNewer(st, w) ==
    LET wr == hook[w].write
    IN  IF \E v \in lastWriter : v > w THEN st
        ELSE IF wr.op = "upsert" THEN Upsert(st, wr.data)
        ELSE UpdateWhereCustomer(st, wr.customer, wr.patch)
\* the table after the store has run the call delivery w awaits
ApplyWrite(st, w) ==
    LET wr == hook[w].write
    IN  IF wr.op = "upsert" THEN Upsert(st, wr.data)
        ELSE UpdateWhereCustomer(st, wr.customer, wr.patch)

\* query.eq(column, value).single(): one row, or an error when none or several match
Matching(st, column, value) == {r \in st : r[column] = value}
Single(rows) ==
    IF Cardinality(rows) = 1
    THEN [kind |-> "row", data |-> CHOOSE r \in rows : TRUE]
    ELSE [kind |-> "norow"]

\* --------------------------------------------------------- webhook handler
\* faulty variant: the event is parsed without verifying the signature
ConstructEventUnverified(sigValid) == TRUE
\* stripe.webhooks.constructEvent(req.body, sig, webhookSecret) returns the event of a
\* request whose signature verifies and throws for any other
ConstructEventSucceeds(sigValid) == sigValid

\* faulty variant: the handlers let their faults through to the dispatch
HandlerCatchesNothing(fault) == FALSE
\* each handler wraps its whole body in try/catch: no fault leaves it
HandlerCatches(fault) == TRUE

\* the dispatch's own try/catch: {received: true}, or 500 for a fault that escaped
DispatchResponse(fault) ==
    IF fault # "none" /\ ~HandlerCatches(fault)
    THEN [status |-> 500, body |-> "Webhook processing failed"]
    ELSE [status |-> 200, body |-> "received"]

\* switch (event.type): the handler the dispatch calls
HandlerOf(type) ==
    CASE type \in SubscriptionUpdateTypes -> "handleSubscriptionUpdate"
      [] type = "customer.subscription.deleted" -> "handleSubscriptionDeleted"
      [] type = "invoice.payment_succeeded" -> "handlePaymentSucceeded"
      [] type = "invoice.payment_failed" -> "handlePaymentFailed"
      [] OTHER -> "default"

IdleHook ==
    [pc |-> "idle", sigValid |-> FALSE, handler |-> "none", object |-> NoObject,
     write |-> NoWrite, fault |-> "none", resp |-> NoResponse,
     retrieveCalls |-> 0, storeCalls |-> 0]

\* the handler returned (normally, or through its catch) and the dispatch answers;
\* of the handler's locals the customer id is kept, for the record of what was handled
Finished(h, fault) ==
    [h EXCEPT !.pc = "done", !.fault = fault, !.resp = DispatchResponse(fault),
              !.object = [customer |-> h.object.customer], !.write = NoWrite]

\* subscriptionData of handleSubscriptionUpdate
SubscriptionData(subscription, customerEmail, t) ==
    [user_id |-> customerEmail,
     email |-> customerEmail,
     stripe_customer_id |-> subscription.customer,
     subscription_tier |-> TierOf(subscription.price),
     status |-> subscription.status,
     stripe_subscription_id |-> subscription.id,
     current_period_end |-> ToISOString(subscription.current_period_end * MsPerSec),
     updated_at |-> ToISOString(t)]

\* faulty variant: the cancellation leaves the tier as stored
CanceledPatchKeepsTier(t) == [status |-> "canceled", updated_at |-> ToISOString(t)]
\* update payload of handleSubscriptionDeleted
CanceledPatch(t) ==
    [status |-> "canceled", subscription_tier |-> "free", updated_at |-> ToISOString(t)]

\* faulty variant: a failed payment also resets the tier
PastDuePatchResetsTier(t) ==
    [status |-> "past_due", subscription_tier |-> "free", updated_at |-> ToISOString(t)]
\* update payload of handlePaymentFailed
PastDuePatch(t) == [status |-> "past_due", updated_at |-> ToISOString(t)]

\* deliveries are numbered as they arrive
NextToArrive(w) ==
    /\ hook[w].pc = "idle"
    /\ \A v \in Hooks : v < w => hook[v].pc # "idle"

\* stripe.webhooks.constructEvent throws: 400, nothing else runs
HookRejected(w) ==
    /\ NextToArrive(w)
    /\ \E sigValid \in BOOLEAN :
         /\ ~ConstructEventSucceeds(sigValid)
         /\ hook' = [hook EXCEPT ![w] =
                       [@ EXCEPT !.pc = "done", !.sigValid = sigValid,
                                 !.resp = [status |-> 400, body |-> "Webhook Error"]]]
    /\ UNCHANGED <<store, now, query, lastWriter>>

\* verified; handleSubscriptionUpdate or handleSubscriptionDeleted awaits the customer
HookSubscription(w) ==
    /\ NextToArrive(w)
    /\ \E sigValid \in BOOLEAN, ev \in Events :
         /\ ConstructEventSucceeds(sigValid)
         /\ HandlerOf(ev.type) \in {"handleSubscriptionUpdate", "handleSubscriptionDeleted"}
         /\ hook' = [hook EXCEPT ![w] =
                       [@ EXCEPT !.pc = "retrieve", !.sigValid = sigValid,
                                 !.handler = HandlerOf(ev.type), !.object = ev.object,
                                 !.retrieveCalls = @ + 1]]
    /\ UNCHANGED <<store, now, query, lastWriter>>

\* verified; handlePaymentFailed awaits the store update
HookPaymentFailed(w) ==
    /\ NextToArrive(w)
    /\ \E sigValid \in BOOLEAN, ev \in Events :
         /\ ConstructEventSucceeds(sigValid)
         /\ HandlerOf(ev.type) = "handlePaymentFailed"
         /\ hook' = [hook EXCEPT ![w] =
                       [@ EXCEPT !.pc = "store", !.sigValid = sigValid,
                                 !.handler = HandlerOf(ev.type), !.object = ev.object,
                                 !.write = [op |-> "update",
                                            customer |-> ev.object.customer,
                                            patch |-> PastDuePatch(now)],
                                 !.storeCalls = @ + 1]]
    /\ UNCHANGED <<store, now, query, lastWriter>>

\* verified; handlePaymentSucceeded, or the default branch: acknowledged
HookAcknowledged(w) ==
    /\ NextToArrive(w)
    /\ \E sigValid \in BOOLEAN, ev \in Events :
         /\ ConstructEventSucceeds(sigValid)
         /\ HandlerOf(ev.type) \in {"handlePaymentSucceeded", "default"}
         /\ hook' = [hook EXCEPT ![w] =
                       Finished([@ EXCEPT !.sigValid = sigValid, !.handler = HandlerOf(ev.type),
                                          !.object = ev.object], "none")]
    /\ UNCHANGED <<store, now, query, lastWriter>>

\* stripe.customers.retrieve rejects: caught by the handler
RetrieveFails(w) ==
    /\ hook[w].pc = "retrieve"
    /\ hook' = [hook EXCEPT ![w] = Finished(@, "retrieve")]
    /\ UNCHANGED <<store, now, query, lastWriter>>

\* handleSubscriptionUpdate after the customer: build the row, await the upsert
RetrieveReturnsUpdate(w) ==
    /\ hook[w].pc = "retrieve"
    /\ hook[w].handler = "handleSubscriptionUpdate"
    /\ \E e \in Emails :
         hook' = [hook EXCEPT ![w] =
                    IF ValidDate(hook[w].object.current_period_end)
                    THEN [@ EXCEPT !.pc = "store",
                                   !.write = [op |-> "upsert",
                                              data |-> SubscriptionData(hook[w].object, e, now)],
                                   !.storeCalls = @ + 1]
                    ELSE Finished(@, "invalid time value")]
    /\ UNCHANGED <<store, now, query, lastWriter>>

\* handleSubscriptionDeleted after the customer: await the update
RetrieveReturnsDeleted(w) ==
    /\ hook[w].pc = "retrieve"
    /\ hook[w].handler = "handleSubscriptionDeleted"
    /\ hook' = [hook EXCEPT ![w] =
                  [@ EXCEPT !.pc = "store",
                            !.write = [op |-> "update",
                                       customer |-> hook[w].object.customer,
                                       patch |-> CanceledPatch(now)],
                            !.storeCalls = @ + 1]]
    /\ UNCHANGED <<store, now, query, lastWriter>>

\* the store lastWriter the write and reported no error
StoreApplies(w) ==
    /\ hook[w].pc = "store"
    /\ store' = ApplyWrite(store, w)
    /\ lastWriter' = {w}
    /\ hook' = [hook EXCEPT ![w] = Finished(@, "none")]
    /\ UNCHANGED <<now, query>>

\* the store call came back with {error}, or rejected: logged, nothing written
StoreFails(w) ==
    /\ hook[w].pc = "store"
    /\ hook' = [hook EXCEPT ![w] = Finished(@, "store")]
    /\ UNCHANGED <<store, now, query, lastWriter>>

Tick ==
    /\ now + MsPerSec <= MaxSec * MsPerSec
    /\ now' = now + MsPerSec
    /\ UNCHANGED <<store, hook, query, lastWriter>>

\* ----------------------------------------------------------- query handler
IdleQuery ==
    [pc |-> "idle", body |-> [userId |-> Absent, email |-> Absent],
     result |-> NoResult, resp |-> NoResponse, storeCalls |-> 0]

\* if (userId) query.eq('user_id', userId) else query.eq('email', email)
QueryColumn(body) == IF ~Falsy(body.userId) THEN "user_id" ELSE "email"
QueryValue(body) == IF ~Falsy(body.userId) THEN body.userId ELSE body.email

\* faulty variant: a period ending at this instant counts as expired
IsExpiredOrEndsNow(row, t) == DateOf(row.current_period_end) <= t
\* currentPeriodEnd < new Date()
IsExpired(row, t) == DateOf(row.current_period_end) < t

\* the answer for a row found
SubscriptionResponse(data, t) ==
    LET isActive == data.status = "active"
        isExpired == IsExpired(data, t)
    IN  [status |-> 200,
         hasSubscription |-> isActive /\ ~isExpired,
         subscriptionTier |-> IF isActive /\ ~isExpired THEN data.subscription_tier ELSE "free",
         subscriptionStatus |-> data.status,
         userId |-> data.user_id,
         email |-> data.email,
         currentPeriodEnd |-> data.current_period_end,
         stripeCustomerId |-> data.stripe_customer_id]

\* faulty variant: a miss is an error
NotFound404Response == [status |-> 404, error |-> "Not found"]
\* if (error || !data): "User not found or no subscription"
NotFoundResponse ==
    [status |-> 200, hasSubscription |-> FALSE, subscriptionTier |-> "free",
     subscriptionStatus |-> "inactive"]

MissingParameterResponse == [status |-> 400, error |-> "Missing parameter"]
InternalErrorResponse == [status |-> 500, error |-> "Internal server error"]

\* what the handler answers to the outcome of `await query.single()`
QueryResponse(result, t) ==
    CASE result.kind = "rejected" -> InternalErrorResponse
      [] result.kind = "row" -> SubscriptionResponse(result.data, t)
      [] OTHER -> NotFoundResponse

\* neither userId nor email: 400 before any query is built
QueryMissingParameter(q) ==
    /\ query[q].pc = "idle"
    /\ \E body \in Bodies :
         /\ Falsy(body.userId) /\ Falsy(body.email)
         /\ query' = [query EXCEPT ![q] =
                        [@ EXCEPT !.pc = "done", !.body = body,
                                  !.resp = MissingParameterResponse]]
    /\ UNCHANGED <<store, now, hook, lastWriter>>

\* the select is sent and awaited
QueryIssued(q) ==
    /\ query[q].pc = "idle"
    /\ \E body \in Bodies :
         /\ ~(Falsy(body.userId) /\ Falsy(body.email))
         /\ query' = [query EXCEPT ![q] =
                        [@ EXCEPT !.pc = "select", !.body = body, !.storeCalls = @ + 1]]
    /\ UNCHANGED <<store, now, hook, lastWriter>>

\* the store runs the select
SelectExecutes(q) ==
    /\ query[q].pc = "select"
    /\ query' = [query EXCEPT ![q] =
                   [@ EXCEPT !.pc = "selected",
                             !.result = Single(Matching(store, QueryColumn(query[q].body),
                                                        QueryValue(query[q].body)))]]
    /\ UNCHANGED <<store, now, hook, lastWriter>>

\* a store fault: the client resolves with {error}, or the awaited call rejects
SelectFaults(q) ==
    /\ query[q].pc = "select"
    /\ \E k \in {"error", "rejected"} :
         query' = [query EXCEPT ![q] = [@ EXCEPT !.pc = "selected", !.result = [kind |-> k]]]
    /\ UNCHANGED <<store, now, hook, lastWriter>>

\* the handler resumes after the await and answers
QueryReturns(q) ==
    /\ query[q].pc = "selected"
    /\ query' = [query EXCEPT ![q] =
                   [@ EXCEPT !.pc = "done", !.resp = QueryResponse(query[q].result, now)]]
    /\ UNCHANGED <<store, now, hook, lastWriter>>

\* ------------------------------------------------------------ the system
Init ==
    /\ store = {}
    /\ now = 0
    /\ hook = [w \in Hooks |-> IdleHook]
    /\ query = [q \in Queries |-> IdleQuery]
    /\ lastWriter = {}

HookNext ==
    \E w \in Hooks :
         \/ HookRejected(w)
         \/ HookSubscription(w)
         \/ HookPaymentFailed(w)
         \/ HookAcknowledged(w)
         \/ RetrieveFails(w)
         \/ RetrieveReturnsUpdate(w)
         \/ RetrieveReturnsDeleted(w)
         \/ StoreApplies(w)
         \/ StoreFails(w)

QueryNext ==
    \E q \in Queries :
         \/ QueryMissingParameter(q)
         \/ QueryIssued(q)
         \/ SelectExecutes(q)
         \/ SelectFaults(q)
         \/ QueryReturns(q)

Next == HookNext \/ Tick

\* the webhook endpoint, from an empty table
Spec == Init /\ [][Next]_vars

\* The query endpoint over a table the webhook endpoint has written: any row for
\* a@x that handleSubscriptionUpdate writes, as written or after a cancellation,
\* beside no row or one row for b@x.
SeedObjects ==
    [customer : Customers, price : PriceIds, status : EventStatuses,
     id : SubIds, current_period_end : Seconds]
SeedRows ==
    LET written == {SubscriptionData(o, "a@x", 0) : o \in SeedObjects}
    IN  written \cup {Patched(r, CanceledPatch(0)) : r \in written}
OtherRow ==
    SubscriptionData([customer |-> "cus_2", price |-> PRICE_ID_PREMIUM, status |-> "active",
                      id |-> "sub_1", current_period_end |-> MaxSec], "b@x", 0)
SeedStores ==
    {rows \cup other : rows \in {{}} \cup {{r} : r \in SeedRows},
                       other \in {{}, {OtherRow}}}

InitQuery ==
    /\ store \in SeedStores
    /\ now = 0
    /\ hook = [w \in Hooks |-> IdleHook]
    /\ query = [q \in Queries |-> IdleQuery]
    /\ lastWriter = {}

NextQuery == QueryNext \/ Tick

SpecQuery == InitQuery /\ [][NextQuery]_vars

\* ================================================================ claims
\* steps of one delivery or one request
StoreCallReturns(w) == hook[w].pc = "store" /\ hook'[w].pc = "done"
WriteApplied(w) == StoreCallReturns(w) /\ hook'[w].fault = "none"
Answers(q) == query[q].pc = "selected" /\ query'[q].pc = "done"
Keys(st) == {r.user_id : r \in st}
RowsOf(st, customer) == {r \in st : r.stripe_customer_id = customer}

\* C1 as stated: for a row returned to the handler, hasSubscription is true exactly
\* when the stored status is "active" and current_period_end is strictly later than
\* the clock at the answer; the tier is the stored one when true and "free" when
\* false; the table is not modified.
C1_StrictlyLater ==
    [][\A q \in Queries :
         (Answers(q) /\ query[q].result.kind = "row") =>
             LET data == query[q].result.data
                 resp == query'[q].resp
                 endMs == data.current_period_end[1] * 1000 + data.current_period_end[2]
             IN  /\ resp.hasSubscription = (data.status = "active" /\ endMs > now)
                 /\ resp.subscriptionTier =
                        IF resp.hasSubscription THEN data.subscription_tier ELSE "free"
                 /\ store' = store]_vars

\* C1 amended: hasSubscription is true exactly when the stored status is "active"
\* and current_period_end is not earlier than the clock at the answer (a period
\* ending at that very instant still counts); the tier is the stored one when true
\* and "free" when false; no step of a query modifies the table.
C1_NotEarlier ==
    [][\A q \in Queries :
         /\ (Answers(q) /\ query[q].result.kind = "row") =>
                LET data == query[q].result.data
                    resp == query'[q].resp
                    endMs == data.current_period_end[1] * 1000 + data.current_period_end[2]
                IN  /\ resp.status = 200
                    /\ resp.hasSubscription = (data.status = "active" /\ endMs >= now)
                    /\ resp.subscriptionTier =
                           IF resp.hasSubscription THEN data.subscription_tier ELSE "free"
         /\ query'[q] # query[q] => store' = store]_vars

\* an active row whose period ends at the instant of the answer was answered as subscribed
C1_Witness ==
    \E q \in Queries :
        /\ query[q].pc = "done"
        /\ query[q].result.kind = "row"
        /\ query[q].result.data.status = "active"
        /\ query[q].result.data.current_period_end = <<1, 0>>
        /\ now = 1000
        /\ query[q].resp.hasSubscription
        /\ query[q].resp.subscriptionTier = "premium"

\* C2: a delivery whose signature does not verify is answered 400, reaches no customer
\* lookup and no store call, and never is the writer of a change of the table; every
\* change of the table is the write of a delivery whose signature verified.
C2_RejectedLeavesStore ==
    /\ [](\A w \in Hooks :
            (hook[w].pc # "idle" /\ ~hook[w].sigValid) =>
                /\ hook[w].pc = "done"
                /\ hook[w].resp.status = 400
                /\ hook[w].handler = "none"
                /\ hook[w].retrieveCalls = 0
                /\ hook[w].storeCalls = 0
                /\ w \notin lastWriter)
    /\ [][store' # store =>
            \E w \in Hooks : hook[w].sigValid /\ StoreCallReturns(w) /\ lastWriter' = {w}]_vars

\* a rejected delivery, after an earlier delivery has written a row
C2_Witness ==
    \E w \in Hooks :
        /\ hook[w].pc = "done"
        /\ ~hook[w].sigValid
        /\ hook[w].resp.status = 400
        /\ store # {}

\* C3: when the update of a subscription.deleted event is applied, every row of that
\* customer has status "canceled" and tier "free" and a customer that had a row still
\* has one; no step at all removes a row of the table.
C3_DeletedCancels ==
    [][/\ \A w \in Hooks :
            (WriteApplied(w) /\ hook[w].handler = "handleSubscriptionDeleted") =>
                LET c == hook[w].object.customer
                IN  /\ \A r \in RowsOf(store', c) :
                           r.status = "canceled" /\ r.subscription_tier = "free"
                    /\ RowsOf(store, c) # {} => RowsOf(store', c) # {}
                    /\ Keys(store') = Keys(store)
       /\ Keys(store) \subseteq Keys(store')]_vars

\* the deletion was the last write, and the known customer's row is canceled and free
C3_Witness ==
    \E w \in Hooks :
        /\ hook[w].pc = "done"
        /\ hook[w].handler = "handleSubscriptionDeleted"
        /\ hook[w].fault = "none"
        /\ lastWriter = {w}
        /\ \E r \in store :
              /\ r.stripe_customer_id = hook[w].object.customer
              /\ r.status = "canceled"
              /\ r.subscription_tier = "free"

\* C4: when the upsert of a subscription created/updated event is applied, the table
\* holds exactly one row under the customer's email, its tier is the one the price-id
\* mapping gives the event's price id ("unknown" for an unmapped one), its status is
\* the event's, and the rows under other keys are as before; at all times no two rows
\* share a key.
C4_UpsertKeyed ==
    /\ [](\A r1, r2 \in store : r1.user_id = r2.user_id => r1 = r2)
    /\ [][\A w \in Hooks :
            (WriteApplied(w) /\ hook[w].handler = "handleSubscriptionUpdate") =>
                LET o == hook[w].object
                    key == hook[w].write.data.user_id
                    rows == {r \in store' : r.user_id = key}
                    tier == CASE o.price = "price_basic" -> "basic"
                              [] o.price = "price_pro" -> "pro"
                              [] o.price = "price_premium" -> "premium"
                              [] OTHER -> "unknown"
                IN  /\ key \in Emails
                    /\ Cardinality(rows) = 1
                    /\ \A r \in rows :
                          /\ r.subscription_tier = tier
                          /\ r.status = o.status
                          /\ r.stripe_customer_id = o.customer
                          /\ r.email = key
                    /\ {r \in store' : r.user_id # key} = {r \in store : r.user_id # key}]_vars

\* two update events were both applied and left one row, of an unmapped price id
C4_Witness ==
    /\ \A w \in {1, 2} :
          /\ hook[w].pc = "done"
          /\ hook[w].handler = "handleSubscriptionUpdate"
          /\ hook[w].fault = "none"
          /\ hook[w].object.customer = "cus_1"
    /\ Cardinality(store) = 1
    /\ \E r \in store : r.subscription_tier = "unknown" /\ r.status = "past_due"

\* C5 as stated: a store fault during the lookup, however the client reports it, is
\* answered 500 and never with the 200 free/inactive answer.
C5_FaultIs500 ==
    \A q \in Queries :
        (query[q].pc = "done" /\ query[q].result.kind \in {"error", "rejected"}) =>
            /\ query[q].resp.status = 500
            /\ "hasSubscription" \notin DOMAIN query[q].resp

\* C6: a verified delivery is answered 200 {received: true} whether or not its customer
\* lookup or store call faulted, and never 500; no delivery makes more than one lookup
\* and one store call; the step on which a delivery faults leaves the table as it
\* was, and a faulted delivery is never the writer of a change.
C6_FaultsSwallowed ==
    /\ [](\A w \in Hooks :
            /\ (hook[w].pc = "done" /\ hook[w].sigValid) =>
                   hook[w].resp = [status |-> 200, body |-> "received"]
            /\ hook[w].resp.status # 500
            /\ hook[w].retrieveCalls <= 1
            /\ hook[w].storeCalls <= 1
            /\ hook[w].fault # "none" => hook[w].pc = "done" /\ w \notin lastWriter)
    /\ [][\A w \in Hooks :
            (hook[w].fault = "none" /\ hook'[w].fault # "none") => store' = store]_vars

\* one delivery's store call faulted and another's lookup faulted; both were acknowledged
C6_Witness ==
    \E v, w \in Hooks :
        /\ hook[v].pc = "done" /\ hook[v].fault = "store"
        /\ hook[w].pc = "done" /\ hook[w].fault = "retrieve"
        /\ hook[v].resp.status = 200 /\ hook[w].resp.status = 200

\* C7: a request with neither userId nor email (absent or empty) is answered 400 on
\* arrival and makes no store call.
C7_MissingParameter ==
    \A q \in Queries :
        (/\ query[q].pc # "idle"
         /\ query[q].body.userId \in {Absent, Empty}
         /\ query[q].body.email \in {Absent, Empty}) =>
            /\ query[q].pc = "done"
            /\ query[q].resp.status = 400
            /\ query[q].storeCalls = 0
            /\ query[q].result = NoResult

\* a request with an empty userId and no email was answered 400
C7_Witness ==
    \E q \in Queries :
        /\ query[q].pc = "done"
        /\ query[q].body = [userId |-> Empty, email |-> Absent]
        /\ query[q].resp.status = 400

\* C8: a lookup that the store ran and that matched no row is answered 200 with
\* hasSubscription false and tier "free"; 400 is answered only to a request with
\* neither identifier and 500 only when the store call was rejected.
C8_MissIsFree ==
    \A q \in Queries :
        LET b == query[q].body
            column == IF b.userId \in {Absent, Empty} THEN "email" ELSE "user_id"
            value == IF b.userId \in {Absent, Empty} THEN b.email ELSE b.userId
        IN  query[q].pc = "done" =>
                /\ (query[q].result.kind \in {"row", "norow"}
                    /\ ~\E r \in store : r[column] = value) =>
                       /\ query[q].resp.status = 200
                       /\ query[q].resp.hasSubscription = FALSE
                       /\ query[q].resp.subscriptionTier = "free"
                /\ query[q].resp.status \in {200, 400, 500}
                /\ query[q].resp.status = 400 =>
                       b.userId \in {Absent, Empty} /\ b.email \in {Absent, Empty}
                /\ query[q].resp.status = 500 => query[q].result.kind = "rejected"

\* a lookup by email of a key the non-empty table does not hold was answered free
C8_Witness ==
    \E q \in Queries :
        /\ query[q].pc = "done"
        /\ query[q].body = [userId |-> Absent, email |-> "b@x"]
        /\ query[q].result.kind = "norow"
        /\ store # {}
        /\ query[q].resp.status = 200
        /\ query[q].resp.hasSubscription = FALSE

\* C9: when the update of an invoice.payment_failed event is applied, the table is
\* the one before with status "past_due" and the new updated_at on the rows of the
\* invoice's customer, and nothing else changed.
C9_PastDueOnly ==
    [][\A w \in Hooks :
         (WriteApplied(w) /\ hook[w].handler = "handlePaymentFailed") =>
             store' = {IF r.stripe_customer_id = hook[w].object.customer
                       THEN [r EXCEPT !.status = "past_due",
                                      !.updated_at = hook[w].write.patch.updated_at]
                       ELSE r : r \in store}]_vars

\* the failed payment was the last write; the customer's row is past_due, its tier kept
C9_Witness ==
    \E w \in Hooks :
        /\ hook[w].pc = "done"
        /\ hook[w].handler = "handlePaymentFailed"
        /\ hook[w].fault = "none"
        /\ lastWriter = {w}
        /\ \E r \in store :
              /\ r.stripe_customer_id = hook[w].object.customer
              /\ r.status = "past_due"
              /\ r.subscription_tier = "premium"
              /\ r.updated_at = <<1, 0>>

\* C10: a write is applied whole also when a delivery that arrived later has already
\* written: an upsert's row is in the table as sent, an update's fields are on every
\* row of its customer (last write wins, whatever the order of arrival).
C10_LastWriteWins ==
    [][\A w \in Hooks :
         (WriteApplied(w) /\ \E v \in lastWriter : v > w) =>
             LET wr == hook[w].write
             IN  IF wr.op = "upsert"
                 THEN wr.data \in store'
                 ELSE \A r \in RowsOf(store', wr.customer) :
                         \A f \in DOMAIN wr.patch : r[f] = wr.patch[f]]_vars

\* the update event arrived first and was written after the deletion that arrived
\* second: the customer's row carries the update's tier and status
C10_Witness ==
    /\ hook[1].pc = "done" /\ hook[1].handler = "handleSubscriptionUpdate"
    /\ hook[2].pc = "done" /\ hook[2].handler = "handleSubscriptionDeleted"
    /\ hook[1].fault = "none" /\ hook[2].fault = "none"
    /\ hook[1].object.customer = hook[2].object.customer
    /\ lastWriter = {1}
    /\ \E r \in store :
          /\ r.stripe_customer_id = hook[1].object.customer
          /\ r.status = "active"
          /\ r.subscription_tier = "premium"

====
